---- MODULE Spec2Model ----
(***************************************************************************)
(* A model of src/data_structures/avl_tree.rs: the AVL tree (AVLNode,      *)
(* AVLTree), its recursive insert / remove / merge / take_min helpers,     *)
(* the rotation and rebalancing of AVLNode, and the in-order iterator      *)
(* (NodeIter, Iter).                                                       *)
(*                                                                         *)
(* An Option<Box<AVLNode<T>>> is either None or a record with the fields   *)
(* of AVLNode.  T is instantiated by the integers 1..MaxVal with their     *)
(* usual order.  A call that panics (an unwrap of None) yields Panic.      *)
(*                                                                         *)
(* The field `addr` of a node is the heap allocation (the Box) that holds  *)
(* it.  Addresses carry no information from one public call to the next:   *)
(* when a call returns, every allocation is renamed to the value it holds, *)
(* so that within a call an address tells which value the allocation held  *)
(* when the call began.  Box::new returns NewBox.                          *)
(***************************************************************************)
EXTENDS Integers, Sequences, FiniteSets

\* The stored values are 1..MaxVal.
MaxVal == 7

Value == 1..MaxVal

VARIABLES
    root,      \* AVLTree.root
    length,    \* AVLTree.length
    panicked,  \* a public call has panicked (the thread unwinds)
    stack,     \* NodeIter.stack of the iterator borrowed from the tree
    iter,      \* TRUE while an Iter borrowed from the tree is alive
    item,      \* what the last call of Iter::next returned
    yielded,   \* history: the values next returned before its first None
    done,      \* history: next has returned None on this iterator
    model,     \* history: the mathematical set the calls describe
    last,      \* history: the last public call, its result, its pre-state
               \* and the tree it left, before the allocations are renamed
    unit       \* a helper function called on its own: input and output

vars ==
    <<root, length, panicked, stack, iter, item, yielded, done, model, last,
      unit>>

----------------------------------------------------------------------------
(* Option<Box<AVLNode<T>>> *)

None == <<>>

Panic == [panic |-> TRUE]

\* the allocation that Box::new returns, distinct from every live one
NewBox == 0

\* Box::new(AVLNode { value, height, left, right })
AVLNode(v, h, l, r) ==
    [addr |-> NewBox, value |-> v, height |-> h, left |-> l, right |-> r]

\* the content `node` held by the allocation `box`
In(box, node) == [node EXCEPT !.addr = box]

Max(a, b) == IF a >= b THEN a ELSE b

\* impl Not for Side
Not(side) == IF side = "Left" THEN "Right" ELSE "Left"

\* AVLNode::child
child(self, side) == IF side = "Left" THEN self.left ELSE self.right

\* an assignment through AVLNode::child_mut
child_mut(self, side, new) ==
    IF side = "Left" THEN [self EXCEPT !.left = new]
                     ELSE [self EXCEPT !.right = new]

\* AVLNode::height: the cached height of a child, 0 when it is absent
height(self, side) ==
    IF child(self, side) = None THEN 0 ELSE child(self, side).height

\* the cast `as i8` of a usize
as_i8(n) == ((n + 128) % 256) - 128

\* AVLNode::balance_factor
balance_factor(self) ==
    LET left  == height(self, "Left")
        right == height(self, "Right")
    IN  IF left < right THEN as_i8(right - left)
                        ELSE -as_i8(left - right)

\* AVLNode::update_height
update_height(self) ==
    [self EXCEPT !.height = 1 + Max(height(self, "Left"), height(self, "Right"))]

\* rotate without the second update_height (line 352)
rotate_stale_height(self, side) ==
    IF child(self, Not(side)) = None
    THEN Panic
    ELSE LET subtree  == child(self, Not(side))
             old_root == update_height(child_mut(self, Not(side), child(subtree, side)))
         IN  In(self.addr, child_mut(subtree, side, In(subtree.addr, old_root)))

\* rotate that re-links the two allocations instead of swapping their
\* contents: the former child's allocation becomes the root of the position
rotate_relink(self, side) ==
    IF child(self, Not(side)) = None
    THEN Panic
    ELSE LET subtree  == child(self, Not(side))
             old_root == update_height(child_mut(self, Not(side), child(subtree, side)))
         IN  update_height(child_mut(subtree, side, old_root))

\* AVLNode::rotate.  After mem::swap the allocation of `self` holds the
\* former child and the allocation of `subtree` holds the former root, which
\* becomes the child on `side`.
rotate(self, side) ==
    IF child(self, Not(side)) = None
    THEN Panic
    ELSE LET subtree  == child(self, Not(side))
             old_root == update_height(child_mut(self, Not(side), child(subtree, side)))
             new_root == child_mut(subtree, side, In(subtree.addr, old_root))
         IN  update_height(In(self.addr, new_root))

\* rebalance that updates the height and never rotates
rebalance_no_rotation(self) == update_height(self)

\* rebalance that rotates the node at once, also when the heavy child leans
\* to the light side (lines 365-367 are missing)
rebalance_no_zigzag(self) ==
    LET node == update_height(self)
        bf   == balance_factor(node)
    IN  IF bf \notin {-2, 2}
        THEN node
        ELSE LET side == IF bf = -2 THEN "Left" ELSE "Right"
             IN  IF child(node, side) = None
                 THEN Panic
                 ELSE rotate(node, Not(side))

\* rebalance that repairs a heavy left side only (the arm `2 => Side::Right`
\* of line 360 is missing)
rebalance_left_only(self) ==
    LET node == update_height(self)
        bf   == balance_factor(node)
    IN  IF bf # -2
        THEN node
        ELSE IF node.left = None
        THEN Panic
        ELSE LET heavy == IF balance_factor(node.left) = 1
                          THEN rotate(node.left, "Left")
                          ELSE node.left
             IN  IF heavy = Panic
                 THEN Panic
                 ELSE rotate([node EXCEPT !.left = heavy], "Right")

\* rebalance that takes the light side for the heavy one (the arms of
\* lines 359-360 are exchanged)
rebalance_wrong_side(self) ==
    LET node == update_height(self)
        bf   == balance_factor(node)
    IN  IF bf \notin {-2, 2}
        THEN node
        ELSE LET side == IF bf = -2 THEN "Right" ELSE "Left"
             IN  IF child(node, side) = None
                 THEN Panic
                 ELSE LET subtree == child(node, side)
                          zigzag  == \/ side = "Left"  /\ balance_factor(subtree) = 1
                                     \/ side = "Right" /\ balance_factor(subtree) = -1
                          heavy   == IF zigzag THEN rotate(subtree, side) ELSE subtree
                      IN  IF heavy = Panic
                          THEN Panic
                          ELSE rotate(child_mut(node, side, heavy), Not(side))

\* AVLNode::rebalance
rebalance(self) ==
    LET node == update_height(self)
        bf   == balance_factor(node)
    IN  IF bf \notin {-2, 2}
        THEN node
        ELSE LET side == IF bf = -2 THEN "Left" ELSE "Right"
             IN  IF child(node, side) = None
                 THEN Panic
                 ELSE LET subtree == child(node, side)
                          zigzag  == \/ side = "Left"  /\ balance_factor(subtree) = 1
                                     \/ side = "Right" /\ balance_factor(subtree) = -1
                          heavy   == IF zigzag THEN rotate(subtree, side) ELSE subtree
                      IN  IF heavy = Panic
                          THEN Panic
                          ELSE rotate(child_mut(node, side, heavy), Not(side))

----------------------------------------------------------------------------
(* The recursive helpers.  Each returns the new content of the slot `tree`, *)
(* the function's result, and `log`: one entry per call of rebalance the    *)
(* call made, in the order of the calls.                                    *)

\* what a call of rebalance on `self` from function `from` computes: the
\* balance factor after the height update (lines 357-358) and, when it
\* rotates, the balance factor of the heavy child (line 365)
rebalance_call(self, from) ==
    LET node == update_height(self)
        bf   == balance_factor(node)
        side == IF bf = -2 THEN "Left" ELSE "Right"
    IN  [from  |-> from,
         value |-> self.value,
         bf    |-> bf,
         heavy |-> IF bf \in {-2, 2} /\ child(node, side) # None
                   THEN balance_factor(child(node, side))
                   ELSE 0]

RECURSIVE insert(_, _)

\* insert that reports a duplicate as inserted
insert_duplicate_true(tree, value) ==
    IF tree = None
    THEN [tree |-> AVLNode(value, 1, None, None), ret |-> TRUE, log |-> <<>>]
    ELSE IF value = tree.value
    THEN [tree |-> tree, ret |-> TRUE, log |-> <<>>]
    ELSE LET side == IF value < tree.value THEN "Left" ELSE "Right"
             sub  == insert(child(tree, side), value)
             node == child_mut(tree, side, sub.tree)
         IN  IF sub.tree = Panic
             THEN sub
             ELSE IF sub.ret
             THEN [tree |-> rebalance(node), ret |-> TRUE,
                   log  |-> Append(sub.log, rebalance_call(node, "insert"))]
             ELSE [tree |-> node, ret |-> FALSE, log |-> sub.log]

\* insert that rebalances the path whether or not a node was created
insert_always_rebalance(tree, value) ==
    IF tree = None
    THEN [tree |-> AVLNode(value, 1, None, None), ret |-> TRUE, log |-> <<>>]
    ELSE IF value = tree.value
    THEN [tree |-> tree, ret |-> FALSE, log |-> <<>>]
    ELSE LET side == IF value < tree.value THEN "Left" ELSE "Right"
             sub  == insert(child(tree, side), value)
             node == child_mut(tree, side, sub.tree)
         IN  IF sub.tree = Panic
             THEN sub
             ELSE [tree |-> rebalance(node), ret |-> sub.ret,
                   log  |-> Append(sub.log, rebalance_call(node, "insert"))]

insert(tree, value) ==
    IF tree = None
    THEN [tree |-> AVLNode(value, 1, None, None), ret |-> TRUE, log |-> <<>>]
    ELSE IF value = tree.value
    THEN [tree |-> tree, ret |-> FALSE, log |-> <<>>]
    ELSE LET side == IF value < tree.value THEN "Left" ELSE "Right"
             sub  == insert(child(tree, side), value)
             node == child_mut(tree, side, sub.tree)
         IN  IF sub.tree = Panic
             THEN sub
             ELSE IF sub.ret
             THEN [tree |-> rebalance(node), ret |-> TRUE,
                   log  |-> Append(sub.log, rebalance_call(node, "insert"))]
             ELSE [tree |-> node, ret |-> FALSE, log |-> sub.log]

RECURSIVE take_min(_)
take_min(tree) ==
    IF tree = None
    THEN [tree |-> None, min |-> None, log |-> <<>>]
    ELSE LET sub  == take_min(tree.left)
             node == [tree EXCEPT !.left = sub.tree]
         IN  IF sub.min = Panic
             THEN sub
             ELSE IF sub.min # None
             THEN IF rebalance(node) = Panic
                  THEN [tree |-> Panic, min |-> Panic, log |-> sub.log]
                  ELSE [tree |-> rebalance(node), min |-> sub.min,
                        log  |-> Append(sub.log, rebalance_call(node, "take_min"))]
             ELSE [tree |-> tree.right, min |-> [tree EXCEPT !.right = None],
                   log  |-> <<>>]

\* merge that attaches the two subtrees on the wrong sides
merge_swapped(left, right) ==
    LET taken == take_min(right)
        root_ == [taken.min EXCEPT !.left = taken.tree, !.right = left]
    IN  IF taken.min = None \/ taken.min = Panic
        THEN [tree |-> Panic, log |-> taken.log]
        ELSE [tree |-> rebalance(root_),
              log  |-> Append(taken.log, rebalance_call(root_, "merge"))]

\* merge that does not attach the left subtree (line 281)
merge_drop_left(left, right) ==
    LET taken == take_min(right)
        root_ == [taken.min EXCEPT !.right = taken.tree]
    IN  IF taken.min = None \/ taken.min = Panic
        THEN [tree |-> Panic, log |-> taken.log]
        ELSE [tree |-> rebalance(root_),
              log  |-> Append(taken.log, rebalance_call(root_, "merge"))]

\* merge that does not rebalance the new root (line 283 is missing)
merge_no_rebalance(left, right) ==
    LET taken == take_min(right)
        root_ == [taken.min EXCEPT !.left = left, !.right = taken.tree]
    IN  IF taken.min = None \/ taken.min = Panic
        THEN [tree |-> Panic, log |-> taken.log]
        ELSE [tree |-> root_, log |-> taken.log]

merge(left, right) ==
    LET taken == take_min(right)
        root_ == [taken.min EXCEPT !.left = left, !.right = taken.tree]
    IN  IF taken.min = None \/ taken.min = Panic
        THEN [tree |-> Panic, log |-> taken.log]
        ELSE [tree |-> rebalance(root_),
              log  |-> Append(taken.log, rebalance_call(root_, "merge"))]

RECURSIVE remove(_, _)

\* remove that keeps the node of a value with two children, overwrites its
\* value with the successor's and drops the successor's node
remove_overwrite_value(tree, value) ==
    IF tree = None
    THEN [tree |-> None, ret |-> FALSE, log |-> <<>>]
    ELSE IF value = tree.value
    THEN IF tree.left = None /\ tree.right = None
         THEN [tree |-> None, ret |-> TRUE, log |-> <<>>]
         ELSE IF tree.right = None
         THEN [tree |-> tree.left, ret |-> TRUE, log |-> <<>>]
         ELSE IF tree.left = None
         THEN [tree |-> tree.right, ret |-> TRUE, log |-> <<>>]
         ELSE [tree |-> In(tree.addr, merge(tree.left, tree.right).tree),
               ret  |-> TRUE,
               log  |-> merge(tree.left, tree.right).log]
    ELSE LET side == IF value < tree.value THEN "Left" ELSE "Right"
             sub  == remove(child(tree, side), value)
             node == child_mut(tree, side, sub.tree)
         IN  IF sub.tree = Panic
             THEN sub
             ELSE IF sub.ret
             THEN [tree |-> rebalance(node), ret |-> TRUE,
                   log  |-> Append(sub.log, rebalance_call(node, "remove"))]
             ELSE [tree |-> node, ret |-> FALSE, log |-> sub.log]

\* remove that reports a removal when it reaches an absent child
remove_absent_true(tree, value) ==
    IF tree = None
    THEN [tree |-> None, ret |-> TRUE, log |-> <<>>]
    ELSE IF value = tree.value
    THEN IF tree.left = None /\ tree.right = None
         THEN [tree |-> None, ret |-> TRUE, log |-> <<>>]
         ELSE IF tree.right = None
         THEN [tree |-> tree.left, ret |-> TRUE, log |-> <<>>]
         ELSE IF tree.left = None
         THEN [tree |-> tree.right, ret |-> TRUE, log |-> <<>>]
         ELSE [tree |-> merge(tree.left, tree.right).tree, ret |-> TRUE,
               log  |-> merge(tree.left, tree.right).log]
    ELSE LET side == IF value < tree.value THEN "Left" ELSE "Right"
             sub  == remove(child(tree, side), value)
             node == child_mut(tree, side, sub.tree)
         IN  IF sub.tree = Panic
             THEN sub
             ELSE IF sub.ret
             THEN [tree |-> rebalance(node), ret |-> TRUE,
                   log  |-> Append(sub.log, rebalance_call(node, "remove"))]
             ELSE [tree |-> node, ret |-> FALSE, log |-> sub.log]

remove(tree, value) ==
    IF tree = None
    THEN [tree |-> None, ret |-> FALSE, log |-> <<>>]
    ELSE IF value = tree.value
    THEN IF tree.left = None /\ tree.right = None
         THEN [tree |-> None, ret |-> TRUE, log |-> <<>>]
         ELSE IF tree.right = None
         THEN [tree |-> tree.left, ret |-> TRUE, log |-> <<>>]
         ELSE IF tree.left = None
         THEN [tree |-> tree.right, ret |-> TRUE, log |-> <<>>]
         ELSE [tree |-> merge(tree.left, tree.right).tree, ret |-> TRUE,
               log  |-> merge(tree.left, tree.right).log]
    ELSE LET side == IF value < tree.value THEN "Left" ELSE "Right"
             sub  == remove(child(tree, side), value)
             node == child_mut(tree, side, sub.tree)
         IN  IF sub.tree = Panic
             THEN sub
             ELSE IF sub.ret
             THEN [tree |-> rebalance(node), ret |-> TRUE,
                   log  |-> Append(sub.log, rebalance_call(node, "remove"))]
             ELSE [tree |-> node, ret |-> FALSE, log |-> sub.log]

RECURSIVE contains(_, _)

\* contains that descends to the wrong side
contains_mirrored(current, value) ==
    IF current = None THEN FALSE
    ELSE IF value = current.value THEN TRUE
    ELSE IF value < current.value THEN contains(current.right, value)
    ELSE contains(current.left, value)

\* AVLTree::contains
contains(current, value) ==
    IF current = None THEN FALSE
    ELSE IF value = current.value THEN TRUE
    ELSE IF value < current.value THEN contains(current.left, value)
    ELSE contains(current.right, value)

\* usize subtraction: an underflow panics (debug build) or wraps to
\* usize::MAX (release build); Underflow stands for either outcome.
Underflow == -1

usize_sub(a, b) == IF a >= b THEN a - b ELSE Underflow

\* AVLTree::len
len == length

\* AVLTree::is_empty
is_empty == length = 0

----------------------------------------------------------------------------
(* The iterator *)

\* the loop that pushes a node and the chain of its left children
RECURSIVE push_left_path(_, _)
push_left_path(stk, child_) ==
    IF child_ = None THEN stk
    ELSE push_left_path(Append(stk, child_), child_.left)

\* the chain of right children
RECURSIVE push_right_path(_, _)
push_right_path(stk, child_) ==
    IF child_ = None THEN stk
    ELSE push_right_path(Append(stk, child_), child_.right)

\* node_iter that starts with the path to the rightmost child
node_iter_rightmost(tree) == push_right_path(<<>>, tree)

\* AVLTree::node_iter
node_iter(tree) == push_left_path(<<>>, tree)

\* next that reads the top of the stack and leaves it there
NodeIter_next_no_pop(stk) ==
    IF Len(stk) > 0
    THEN LET node == stk[Len(stk)]
         IN  [stack |-> push_left_path(stk, node.right), ret |-> node]
    ELSE [stack |-> stk, ret |-> None]

\* next that does not push the left path of the right subtree
NodeIter_next_no_right(stk) ==
    IF Len(stk) > 0
    THEN [stack |-> SubSeq(stk, 1, Len(stk) - 1), ret |-> stk[Len(stk)]]
    ELSE [stack |-> stk, ret |-> None]

\* NodeIter::next: the stack after the call and the node returned
NodeIter_next(stk) ==
    IF Len(stk) > 0
    THEN LET node == stk[Len(stk)]
         IN  [stack |-> push_left_path(SubSeq(stk, 1, Len(stk) - 1), node.right),
              ret   |-> node]
    ELSE [stack |-> stk, ret |-> None]

\* Iter::next
Iter_next(stk) ==
    LET r == NodeIter_next(stk)
    IN  [stack |-> r.stack,
         ret   |-> IF r.ret = None THEN None ELSE <<r.ret.value>>]

----------------------------------------------------------------------------
(* The state machine *)

\* the tree with every allocation renamed to the value it holds
RECURSIVE Renamed(_)
Renamed(tree) ==
    IF tree = None THEN None
    ELSE [tree EXCEPT !.addr  = tree.value,
                      !.left  = Renamed(tree.left),
                      !.right = Renamed(tree.right)]

NoCall ==
    [name |-> "new", arg |-> 0, ret |-> FALSE, log |-> <<>>,
     root |-> None, length |-> 0, post |-> None]

\* no helper function is called on its own
NoUnit == [fn |-> "none", input |-> None, output |-> None, applied |-> FALSE]

\* AVLTree::new
Init ==
    /\ root = None
    /\ length = 0
    /\ panicked = FALSE
    /\ stack = <<>>
    /\ iter = FALSE
    /\ item = None
    /\ yielded = <<>>
    /\ done = FALSE
    /\ model = {}
    /\ last = NoCall
    /\ unit = NoUnit

\* a public call returns: `r` is what the recursive helper returned,
\* `new_length` and `new_model` the length and the set after the call
Returns(name, value, r, new_length, new_model) ==
    IF r.tree = Panic
    THEN /\ panicked' = TRUE
         /\ UNCHANGED <<root, length, model, last>>
    ELSE /\ root' = Renamed(r.tree)
         /\ length' = new_length
         /\ model' = new_model
         /\ last' = [name |-> name, arg |-> value, ret |-> r.ret,
                     log |-> r.log, root |-> root, length |-> length,
                     post |-> r.tree]
         /\ UNCHANGED panicked

\* AVLTree::insert
Insert(value) ==
    /\ ~panicked
    /\ ~iter
    /\ LET r == insert(root, value)
       IN  Returns("insert", value, r,
                   IF r.ret THEN length + 1 ELSE length, model \cup {value})
    /\ UNCHANGED <<stack, iter, item, yielded, done, unit>>

\* AVLTree::remove that decrements the length whatever remove returned
Remove_always_decrement(value) ==
    /\ ~panicked
    /\ ~iter
    /\ LET r == remove(root, value)
       IN  Returns("remove", value, r, usize_sub(length, 1), model \ {value})
    /\ UNCHANGED <<stack, iter, item, yielded, done, unit>>

\* AVLTree::remove
Remove(value) ==
    /\ ~panicked
    /\ ~iter
    /\ LET r == remove(root, value)
       IN  Returns("remove", value, r,
                   IF r.ret THEN usize_sub(length, 1) ELSE length,
                   model \ {value})
    /\ UNCHANGED <<stack, iter, item, yielded, done, unit>>

\* AVLTree::iter: the tree is borrowed until the iterator is dropped
NewIter ==
    /\ ~panicked
    /\ ~iter
    /\ iter' = TRUE
    /\ stack' = node_iter(root)
    /\ item' = None
    /\ yielded' = <<>>
    /\ done' = FALSE
    /\ UNCHANGED <<root, length, panicked, model, last, unit>>

\* Iter::next
IterNext ==
    /\ iter
    /\ LET r == Iter_next(stack)
       IN  /\ stack' = r.stack
           /\ item' = r.ret
           /\ yielded' = IF r.ret # None /\ ~done THEN Append(yielded, r.ret[1]) ELSE yielded
           /\ done' = (done \/ r.ret = None)
    /\ UNCHANGED <<root, length, panicked, iter, model, last, unit>>

\* the iterator goes out of scope and the borrow ends
DropIter ==
    /\ iter
    /\ iter' = FALSE
    /\ stack' = <<>>
    /\ item' = None
    /\ yielded' = <<>>
    /\ done' = FALSE
    /\ UNCHANGED <<root, length, panicked, model, last, unit>>

Next ==
    \/ \E value \in Value : Insert(value)
    \/ \E value \in Value : Remove(value)
    \/ NewIter
    \/ IterNext
    \/ DropIter

Spec == Init /\ [][Next]_vars

----------------------------------------------------------------------------
(* rebalance and merge called on their own, on every input over Value *)

\* the cached height of a subtree, 0 when it is absent (as in height)
height_of(tree) == IF tree = None THEN 0 ELSE tree.height

\* every subtree over the values lo..hi that is ordered, balanced and has
\* exact heights: the subtrees that C1, C2 and C10 allow
RECURSIVE Trees(_, _)
Trees(lo, hi) ==
    {None} \cup
    UNION { LET lefts  == Trees(lo, v - 1)
                rights == Trees(v + 1, hi)
            IN  { In(v, AVLNode(v, 1 + Max(height_of(p[1]), height_of(p[2])), p[1], p[2])) :
                    p \in { q \in lefts \X rights :
                              height_of(q[1]) - height_of(q[2]) \in -1..1 } }
          : v \in lo..hi }

\* the nodes rebalance is given: two valid subtrees around the node's value
\* whose heights differ by at most 2, and a height field that may be stale
RebalanceInputs ==
    UNION { LET lefts  == Trees(1, v - 1)
                rights == Trees(v + 1, MaxVal)
            IN  UNION { { In(v, AVLNode(v, h, p[1], p[2])) :
                            h \in {1, 1 + Max(height_of(p[1]), height_of(p[2]))} }
                      : p \in { q \in lefts \X rights :
                                  height_of(q[1]) - height_of(q[2]) \in -2..2 } }
          : v \in Value }

\* the pairs merge is given: two non-empty valid subtrees, every value of
\* the left one below every value of the right one
MergeInputs ==
    UNION { (Trees(1, k) \ {None}) \X (Trees(k + 1, MaxVal) \ {None})
          : k \in Value }

InitUnit(fn, inputs) ==
    /\ root = None
    /\ length = 0
    /\ panicked = FALSE
    /\ stack = <<>>
    /\ iter = FALSE
    /\ item = None
    /\ yielded = <<>>
    /\ done = FALSE
    /\ model = {}
    /\ last = NoCall
    /\ unit \in {[fn |-> fn, input |-> i, output |-> None, applied |-> FALSE] :
                   i \in inputs}

InitRebalance == InitUnit("rebalance", RebalanceInputs)

\* self.rebalance()
ApplyRebalance ==
    /\ unit.fn = "rebalance"
    /\ ~unit.applied
    /\ unit' = [unit EXCEPT !.output = rebalance(unit.input), !.applied = TRUE]
    /\ UNCHANGED <<root, length, panicked, stack, iter, item, yielded, done,
                   model, last>>

NextRebalance == ApplyRebalance

SpecRebalance == InitRebalance /\ [][NextRebalance]_vars

InitMerge == InitUnit("merge", MergeInputs)

\* merge(left, right)
ApplyMerge ==
    /\ unit.fn = "merge"
    /\ ~unit.applied
    /\ unit' = [unit EXCEPT !.output = merge(unit.input[1], unit.input[2]),
                            !.applied = TRUE]
    /\ UNCHANGED <<root, length, panicked, stack, iter, item, yielded, done,
                   model, last>>

NextMerge == ApplyMerge

SpecMerge == InitMerge /\ [][NextMerge]_vars

----------------------------------------------------------------------------
(* What the properties speak about *)

\* the set of nodes (each with its subtree) reachable from `tree`
RECURSIVE Nodes(_)
Nodes(tree) ==
    IF tree = None THEN {}
    ELSE {tree} \cup Nodes(tree.left) \cup Nodes(tree.right)

\* the set of values stored in the nodes reachable from `tree`
RECURSIVE Values(_)
Values(tree) ==
    IF tree = None THEN {}
    ELSE {tree.value} \cup Values(tree.left) \cup Values(tree.right)

\* the number of nodes reachable from `tree`
RECURSIVE Count(_)
Count(tree) ==
    IF tree = None THEN 0
    ELSE 1 + Count(tree.left) + Count(tree.right)

\* the true height of a subtree, computed from its shape alone
RECURSIVE TrueHeight(_)
TrueHeight(tree) ==
    IF tree = None THEN 0
    ELSE 1 + Max(TrueHeight(tree.left), TrueHeight(tree.right))

Abs(n) == IF n < 0 THEN -n ELSE n

Balanced(tree) ==
    \A n \in Nodes(tree) :
        Abs(TrueHeight(n.left) - TrueHeight(n.right)) <= 1

SearchTree(tree) ==
    \A n \in Nodes(tree) :
        /\ \A v \in Values(n.left)  : v < n.value
        /\ \A v \in Values(n.right) : v > n.value

UniqueValues(tree) == Count(tree) = Cardinality(Values(tree))

HeightsExact(tree) ==
    \A n \in Nodes(tree) :
        n.height = 1 + Max(TrueHeight(n.left), TrueHeight(n.right))

StrictlyAscending(seq) ==
    \A i \in 1..Len(seq) : \A j \in 1..Len(seq) : i < j => seq[i] < seq[j]

Range(seq) == {seq[i] : i \in 1..Len(seq)}

\* the last public call rotated at the root: the root holds another value
\* although the value of the call was not the root's
RotatedAtRoot ==
    /\ last.root # None
    /\ root # None
    /\ last.arg # last.root.value
    /\ root.value # last.root.value

\* the last public call removed the value of a node with two children
RemovedTwoChildren ==
    /\ last.name = "remove"
    /\ last.ret
    /\ \E n \in Nodes(last.root) :
           n.value = last.arg /\ n.left # None /\ n.right # None

----------------------------------------------------------------------------
(* Properties *)

\* C1: after any sequence of insert and remove calls, the true heights of
\* the two subtrees of every reachable node differ by at most 1.
C1_Balance == Balanced(root)

C1_Witness ==
    /\ last.name = "remove"
    /\ last.ret
    /\ RotatedAtRoot
    /\ TrueHeight(last.root) = 4

\* C2: the tree is a binary search tree with unique values: at every node
\* the values on the left are smaller, the values on the right are greater,
\* and no two nodes hold the same value.
C2_SearchTree == SearchTree(root) /\ UniqueValues(root)

C2_Witness ==
    /\ RemovedTwoChildren
    /\ last.root.value = last.arg
    /\ Count(root) >= 5

\* C3: contains(v) is true exactly when v is in the set obtained by applying
\* the same inserts and removes to a mathematical set.
C3_Refinement == \A v \in Value : contains(root, v) <=> v \in model

C3_Witness ==
    /\ last.name = "remove"
    /\ last.ret
    /\ Cardinality(model) >= 4
    /\ \E v \in Value : contains(root, v) /\ v > last.arg
    /\ \E v \in Value : contains(root, v) /\ v < last.arg

\* C4: a fresh iterator yields, until its first None, the values stored in
\* the tree, each once, in strictly ascending order: len() values in all.
C4_Iteration ==
    iter => /\ StrictlyAscending(yielded)
            /\ done => /\ Range(yielded) = Values(root)
                       /\ Len(yielded) = len

C4_Witness ==
    /\ iter
    /\ done
    /\ Len(yielded) = MaxVal
    /\ last.name = "insert"
    /\ last.arg = 1

\* C5: insert(v) returns true iff v was not stored before; when it returns
\* true, v is stored afterwards, every value stored before is still
\* stored, and len() has grown by exactly 1.
C5_Insert ==
    last.name = "insert" =>
        /\ last.ret <=> last.arg \notin Values(last.root)
        /\ last.ret => /\ last.arg \in Values(root)
                       /\ Values(last.root) \subseteq Values(root)
                       /\ len = last.length + 1

C5_Witness ==
    /\ last.name = "insert"
    /\ last.ret
    /\ RotatedAtRoot
    /\ last.length >= 4

\* C6: remove(v) returns true iff v was stored before; when it returns true,
\* v is no longer stored, every other value is still stored, no new value
\* appears, and len() has shrunk by exactly 1.
C6_Remove ==
    last.name = "remove" =>
        /\ last.ret <=> last.arg \in Values(last.root)
        /\ last.ret => /\ Values(root) = Values(last.root) \ {last.arg}
                       /\ len = last.length - 1

C6_Witness ==
    /\ RemovedTwoChildren
    /\ \E e \in Range(last.log) : e.from = "take_min"

\* C7: len() is the number of nodes reachable from the root and the number
\* of distinct values inserted and not removed since (so it never
\* underflows), and is_empty() is true exactly when the root is absent.
C7_Length ==
    /\ len = Count(root)
    /\ len = Cardinality(model)
    /\ is_empty <=> root = None

C7_Witness ==
    /\ last.name = "remove"
    /\ last.ret
    /\ last.root # None
    /\ root = None
    /\ is_empty

\* C8: inserting a value that is already stored returns false, leaves the
\* tree and len() as they were, and calls rebalance on no node.
C8_DuplicateInsert ==
    (last.name = "insert" /\ last.arg \in Values(last.root)) =>
        /\ ~last.ret
        /\ root = last.root
        /\ len = last.length
        /\ last.log = <<>>

C8_Witness ==
    /\ last.name = "insert"
    /\ last.arg \in Values(last.root)
    /\ last.arg # last.root.value
    /\ ~last.ret

\* C9: removing a value that is not stored returns false and leaves the
\* tree and len() as they were.
C9_MissingRemove ==
    (last.name = "remove" /\ last.arg \notin Values(last.root)) =>
        /\ ~last.ret
        /\ root = last.root
        /\ len = last.length

C9_Witness ==
    /\ last.name = "remove"
    /\ last.arg \notin Values(last.root)
    /\ Count(last.root) >= 2
    /\ ~last.ret

\* C10: after every public insert or remove, the height field of every
\* reachable node is 1 + the maximum of the true heights of its subtrees.
C10_Heights == HeightsExact(root)

C10_Witness ==
    /\ RemovedTwoChildren
    /\ \E e \in Range(last.log) : e.from = "merge" /\ e.bf \in {-2, 2}

----------------------------------------------------------------------------
(* Properties of the height, of the calls of rebalance and of the iterator *)

\* the least number of nodes of a balanced tree of height h
RECURSIVE MinNodes(_)
MinNodes(h) ==
    IF h = 0 THEN 0
    ELSE IF h = 1 THEN 1
    ELSE 1 + MinNodes(h - 1) + MinNodes(h - 2)

\* the entries of the last call's log in which rebalance rotated
Rotations(log) == {i \in 1..Len(log) : log[i].bf \in {-2, 2}}

\* a rotating entry whose heavy child leaned to the light side
ZigZag(e) ==
    \/ e.bf = -2 /\ e.heavy = 1
    \/ e.bf = 2 /\ e.heavy = -1

\* C11: a tree whose root has height h stores at least N(h) values, where
\* N(0) = 0, N(1) = 1 and N(h) = 1 + N(h-1) + N(h-2).
C11_LogarithmicHeight ==
    Count(root) >= MinNodes(IF root = None THEN 0 ELSE root.height)

C11_Witness ==
    /\ root # None
    /\ root.height = 4
    /\ Count(root) = MinNodes(4)

\* C12: every balance factor that rebalance computes after updating the
\* height, in any insert or remove, lies in -2..2.
C12_BalanceFactorRange ==
    \A i \in 1..Len(last.log) : last.log[i].bf \in -2..2

C12_Witness ==
    /\ last.name = "remove"
    /\ \E i \in 1..Len(last.log) : last.log[i].from = "take_min"
    /\ \E i \in 1..Len(last.log) :
           last.log[i].from = "merge" /\ last.log[i].bf \in {-2, 2}

\* C13: no insert or remove panics: take_min returns a node to merge, and
\* the children that rebalance and rotate unwrap are present.
C13_NoPanic == ~panicked

C13_Witness ==
    /\ ~panicked
    /\ RemovedTwoChildren
    /\ \E i \in Rotations(last.log) : ZigZag(last.log[i])

\* C17: once next has returned None, the next call returns None again, and
\* before that each call returns a value greater than the previous call's.
C17_NotRestartable ==
    iter =>
        /\ done => /\ item = None
                   /\ Iter_next(stack).ret = None
                   /\ Iter_next(stack).stack = stack
        /\ (item # None /\ Iter_next(stack).ret # None) =>
               Iter_next(stack).ret[1] > item[1]

C17_Witness ==
    /\ iter
    /\ done
    /\ Len(yielded) >= 3
    /\ last.name = "remove"

\* C18: a successful insert rotates at most once on the path from the new
\* node to the root, and every rebalance above the rotation finds a balance
\* factor in -1..1.
C18_OneRotationPerInsert ==
    (last.name = "insert" /\ last.ret) =>
        \A i \in Rotations(last.log) :
            \A j \in 1..Len(last.log) : j # i => last.log[j].bf \in -1..1

C18_Witness ==
    /\ last.name = "insert"
    /\ last.ret
    /\ \E i \in Rotations(last.log) : i < Len(last.log) /\ ZigZag(last.log[i])

\* C19: the iterator's stack never holds more than root.height nodes, its
\* values decrease from bottom to top, and its top is the smallest value
\* not yet yielded.
C19_StackBound ==
    iter =>
        /\ Len(stack) <= (IF root = None THEN 0 ELSE root.height)
        /\ \A i \in 1..Len(stack) : \A j \in 1..Len(stack) :
               i < j => stack[i].value > stack[j].value
        /\ \A v \in Values(root) \ Range(yielded) :
               Len(stack) > 0 /\ stack[Len(stack)].value <= v
        /\ Len(stack) > 0 => stack[Len(stack)].value \in Values(root) \ Range(yielded)

C19_Witness ==
    /\ iter
    /\ ~done
    /\ Len(yielded) >= 2
    /\ Len(stack) = 3
    /\ root.height = 4

----------------------------------------------------------------------------
(* Properties of rebalance and merge as functions *)

\* the values of a subtree from left to right
RECURSIVE InOrder(_)
InOrder(tree) ==
    IF tree = None THEN <<>>
    ELSE InOrder(tree.left) \o <<tree.value>> \o InOrder(tree.right)

\* the order, balance and height invariants of a subtree
Valid(tree) ==
    /\ tree # Panic
    /\ SearchTree(tree)
    /\ Balanced(tree)
    /\ HeightsExact(tree)

\* C14: rebalance, given a node between two valid subtrees whose heights
\* differ by at most 2, leaves a valid subtree with the same values in the
\* same order.  A node within balance keeps its shape; a heavy child that
\* leans to the light side is rotated first, so its inner child becomes the
\* root; any other heavy child (balance 0 included) becomes the root.
C14_Rebalance ==
    (unit.fn = "rebalance" /\ unit.applied) =>
        LET self == update_height(unit.input)
            bf   == balance_factor(self)
            side == IF bf = -2 THEN "Left" ELSE "Right"
            out  == unit.output
        IN  /\ Valid(out)
            /\ InOrder(out) = InOrder(unit.input)
            /\ bf \in -1..1 => out = self
            /\ bf \in {-2, 2} =>
                   LET heavy == balance_factor(child(self, side))
                   IN  out.value = IF heavy = (IF side = "Left" THEN 1 ELSE -1)
                                   THEN child(child(self, side), Not(side)).value
                                   ELSE child(self, side).value

C14_Witness ==
    /\ unit.fn = "rebalance"
    /\ unit.applied
    /\ balance_factor(update_height(unit.input)) = -2
    /\ balance_factor(unit.input.left) = 1
    /\ unit.output.value = unit.input.left.right.value
    /\ unit.output.height = 3

\* in the tree, a rotation whose heavy child has balance 0 happens in
\* removals only
HeavyZeroOnlyInRemoval ==
    \A i \in Rotations(last.log) :
        last.log[i].heavy = 0 => last.name = "remove"

\* what C15 promises of merge's result
MergeResult ==
    LET left  == unit.input[1]
        right == unit.input[2]
        out   == unit.output
    IN  /\ Valid(out.tree)
        /\ InOrder(out.tree) = InOrder(left) \o InOrder(right)
        /\ Cardinality({i \in 1..Len(out.log) : out.log[i].from = "merge"}) = 1
        /\ out.log[Len(out.log)].from = "merge"
        /\ out.log[Len(out.log)].value = InOrder(right)[1]
        /\ \A i \in 1..Len(out.log) - 1 : out.log[i].from = "take_min"

----------------------------------------------------------------------------
(* Properties of the allocations *)

\* the allocations of a tree
RECURSIVE Boxes(_)
Boxes(tree) ==
    IF tree = None THEN {}
    ELSE {tree.addr} \cup Boxes(tree.left) \cup Boxes(tree.right)

\* the value that the allocation `box` of `tree` holds
ValueIn(tree, box) == (CHOOSE n \in Nodes(tree) : n.addr = box).value

\* the allocations that the last call kept and whose value it changed
ChangedBoxes ==
    {b \in Boxes(last.root) \cap Boxes(last.post) :
        ValueIn(last.post, b) # ValueIn(last.root, b)}

\* the node of the removed value and its successor, before the last call
RemovedNode == CHOOSE n \in Nodes(last.root) : n.value = last.arg

Successor == InOrder(RemovedNode.right)[1]

\* C16 as claimed: a node never changes its stored value, except in the
\* removal of a value whose node has two children, where the node of the
\* removed value is kept and receives the successor's value, and the
\* successor's node is discarded.
C16_Original ==
    /\ ChangedBoxes # {} => RemovedTwoChildren /\ ChangedBoxes = {RemovedNode.addr}
    /\ RemovedTwoChildren =>
           /\ RemovedNode.addr \in Boxes(last.post)
           /\ ValueIn(last.post, RemovedNode.addr) = Successor
           /\ Successor \notin Boxes(last.post)

\* C16 as amended: a node changes its stored value only in a call that
\* rotates, where mem::swap exchanges the contents of the rotated node and
\* its child, so that the root of a tree keeps its allocation while values
\* move through it.  Every successful removal, with two children or not,
\* discards the node of the removed value and no other; the successor's
\* node stays in the tree.
C16_ValuesMoveByRotation ==
    /\ Rotations(last.log) = {} => ChangedBoxes = {}
    /\ (last.root # None /\ last.post # None /\ last.arg # last.root.value) =>
           last.post.addr = last.root.addr
    /\ (last.name = "remove" /\ last.ret) =>
           Boxes(last.post) = Boxes(last.root) \ {RemovedNode.addr}
    /\ RemovedTwoChildren =>
           /\ Successor \in Boxes(last.post)
           /\ Rotations(last.log) = {} => ValueIn(last.post, Successor) = Successor
    /\ (last.name = "insert" /\ last.ret) =>
           /\ Boxes(last.post) = Boxes(last.root) \cup {NewBox}
           /\ Rotations(last.log) = {} => ValueIn(last.post, NewBox) = last.arg

C16_Witness ==
    /\ RemovedTwoChildren
    /\ Rotations(last.log) # {}
    /\ ChangedBoxes # {}
    /\ ValueIn(last.post, Successor) # Successor

====
